---- MODULE Spec2Model ----
(***************************************************************************)
(* picture-to-gds: picToGDS.main (image -> binary bitmap -> GDSII layout)  *)
(* and app.convert_to_gds (the wrapper that runs picToGDS.py in a          *)
(* temporary directory and hands back the files it finds there).           *)
(*                                                                         *)
(* Arrays are records [h, w, px] with px a function on <<y, x>>, indexed   *)
(* from 0 as numpy does (a[y, x]).  A raster is recorded by the luma that  *)
(* cv2.cvtColor(img, COLOR_RGB2GRAY) computes for each of its pixels.      *)
(* Real numbers that the code computes (error_p * k / 16.0) are kept in    *)
(* sixteenths, which represents them exactly.                              *)
(***************************************************************************)
EXTENDS Integers, Sequences, FiniteSets, TLC

VARIABLES
    args,          \* main's parameters: fileOk, image, scale, isDither, threshold_offset, invert, sizeOfTheCell
    pc,            \* the statement of main that runs next
    err,           \* the exception main raised, "" while none
    scale,         \* main's local scale after the fix of lines 31-33
    img_raw,       \* cv2.imread's result
    img,           \* the resampled raster
    width, height,
    gray,          \* the grayscale buffer, dithered in place
    T_otsu, T_effective,
    binaryImage,
    bmpFile,       \* the content of image.bmp, NoArray while it does not exist
    grid,          \* the origins of the references of cell GRID, in the order they were added
    top,           \* the reference of cell TOP
    gdsFile,       \* the content of image.gds
    calls,         \* convert_to_gds: the state of each invocation
    fs,            \* the file system: directory -> file name -> content
    made           \* the directories tempfile has created so far

mainVars == <<args, pc, err, scale, img_raw, img, width, height, gray, T_otsu,
              T_effective, binaryImage, bmpFile, grid, top, gdsFile>>
appVars == <<calls, fs, made>>
vars == <<mainVars, appVars>>

----------------------------------------------------------------------------
(* Bounds of the model *)

DitherMaxW == 3
DitherMaxH == 2
ThreshMaxW == 2
ThreshMaxH == 1
BitmapMaxW == 3
BitmapMaxH == 3
ScaleMaxW == 2
ScaleMaxH == 2
MaxCellSize == 3

(* Program constants *)

White == 255
Black == 0
Sixteen == 16
DefaultScale == 1

----------------------------------------------------------------------------
(* Arrays *)

Pixels(w, h) == (0 .. h - 1) \X (0 .. w - 1)
NoArray == [h |-> 0, w |-> 0, px |-> [p \in {} |-> 0]]
Images(w, h, values) == {[h |-> h, w |-> w, px |-> f] : f \in [Pixels(w, h) -> values]}
Px(a, y, x) == a.px[<<y, x>>]
Put(a, y, x, v) == [a EXCEPT !.px[<<y, x>>] = v]
Uniform(w, h, v) == [h |-> h, w |-> w, px |-> [p \in Pixels(w, h) |-> v]]

----------------------------------------------------------------------------
(* picToGDS.py: the helpers of main *)

minmax(v) ==
    LET v1 == IF v > White * Sixteen THEN White * Sixteen ELSE v
    IN  IF v1 < 0 THEN 0 ELSE v1

(* Storing a real of [0, 255] (in sixteenths) into the uint8 buffer truncates it. *)
AsUint8(v) == v \div Sixteen

(* gray[..] = minmax(gray[..] + error_p * k / 16.0) *)
Diffuse(old, error_p, k) == AsUint8(minmax(old * Sixteen + error_p * k))

(* np.round(old_p / 255.0) * 255: old_p / 255.0 is never exactly one half *)
Quantize(old_p) == IF 2 * old_p > White THEN White ELSE 0

(* DitherPixel with the below-left share written one row too high, at gray[y, x - 1]. *)
DitherPixelSameRow(g, y, x) ==
    LET old_p == Px(g, y, x)
        new_p == Quantize(old_p)
        error_p == old_p - new_p
        g1 == Put(g, y, x, new_p)
        g2 == Put(g1, y, x + 1, Diffuse(Px(g1, y, x + 1), error_p, 7))
        g3 == Put(g2, y, x - 1, Diffuse(Px(g2, y, x - 1), error_p, 3))
        g4 == Put(g3, y + 1, x, Diffuse(Px(g3, y + 1, x), error_p, 5))
    IN  Put(g4, y + 1, x + 1, Diffuse(Px(g4, y + 1, x + 1), error_p, 1))

(* The body of the dithering loops for one visited pixel, lines 52-63. *)
DitherPixel(g, y, x) ==
    LET old_p == Px(g, y, x)
        new_p == Quantize(old_p)
        error_p == old_p - new_p
        g1 == Put(g, y, x, new_p)
        g2 == Put(g1, y, x + 1, Diffuse(Px(g1, y, x + 1), error_p, 7))
        g3 == Put(g2, y + 1, x - 1, Diffuse(Px(g2, y + 1, x - 1), error_p, 3))
        g4 == Put(g3, y + 1, x, Diffuse(Px(g3, y + 1, x), error_p, 5))
    IN  Put(g4, y + 1, x + 1, Diffuse(Px(g4, y + 1, x + 1), error_p, 1))

(* for y in range(0, height - 1): for x in range(1, width - 1) *)
DitherVisits(g) == IF g.w >= 3 /\ g.h >= 2 THEN (g.h - 1) * (g.w - 2) ELSE 0

RECURSIVE DitherFrom(_, _)
DitherFrom(g, k) ==
    IF k >= DitherVisits(g) THEN g
    ELSE DitherFrom(DitherPixel(g, k \div (g.w - 2), 1 + (k % (g.w - 2))), k + 1)

DitherPass(g) == DitherFrom(g, 0)

(* FixScale that lets a scale of 0 through (scale < 0 for scale <= 0). *)
FixScaleNegativeOnly(s) == IF s.isNone \/ s.v < 0 THEN DefaultScale ELSE s.v

(* if scale is None or scale <= 0: scale = 1.0 *)
FixScale(s) == IF s.isNone \/ s.v <= 0 THEN DefaultScale ELSE s.v

(* cv2.resize(img_raw, dsize=None, fx=scale, fy=scale): the output size is
   round(dim * scale); an empty output size is an error.  The scales of the
   model are integers.  The content is exact for scale 1 and for a uniform
   raster, the only rasters the model resamples with another scale. *)
ResizeOk(a, s) == a.w * s > 0 /\ a.h * s > 0
CvResize(a, s) ==
    [h |-> a.h * s, w |-> a.w * s,
     px |-> [p \in Pixels(a.w * s, a.h * s) |-> a.px[<<p[1] \div s, p[2] \div s>>]]]

(* np.clip(T, lo, hi) *)
NpClip(v, lo, hi) == IF v < lo THEN lo ELSE IF v > hi THEN hi ELSE v

(* EffectiveThreshold clipped from above only. *)
EffectiveThresholdNoFloor(otsu, offset) ==
    IF otsu + offset > White THEN White ELSE otsu + offset

(* T_effective = float(np.clip(T_otsu + threshold_offset, 0, 255)) *)
EffectiveThreshold(otsu, offset) == NpClip(otsu + offset, 0, White)

(* cv2.threshold(gray, T, 255, cv2.THRESH_BINARY): dst = 255 where src > T, else 0 *)
CvThresholdBinary(g, T) ==
    [g EXCEPT !.px = [p \in DOMAIN g.px |-> IF g.px[p] > T THEN White ELSE 0]]

(* The body of the corner loops for one neighbourhood, lines 80-93. *)
CornerAt(b, y, x) ==
    IF /\ Px(b, y, x) = Black /\ Px(b, y + 1, x) = White
       /\ Px(b, y, x + 1) = White /\ Px(b, y + 1, x + 1) = Black
    THEN Put(b, y + 1, x, Black)
    ELSE IF /\ Px(b, y, x) = White /\ Px(b, y + 1, x) = Black
            /\ Px(b, y, x + 1) = Black /\ Px(b, y + 1, x + 1) = White
         THEN Put(b, y + 1, x + 1, Black)
         ELSE b

(* for x in range(width - 1): for y in range(height - 1) *)
CornerVisits(b) == IF b.w >= 2 /\ b.h >= 2 THEN (b.w - 1) * (b.h - 1) ELSE 0

RECURSIVE CornerFrom(_, _)
CornerFrom(b, k) ==
    IF k >= CornerVisits(b) THEN b
    ELSE CornerFrom(CornerAt(b, k % (b.h - 1), k \div (b.h - 1)), k + 1)

CornerPass(b) == CornerFrom(b, 0)

(* binaryImage = 255 - binaryImage *)
InvertImage(b) == [b EXCEPT !.px = [p \in DOMAIN b.px |-> White - b.px[p]]]

(* The origin of the reference that pixel (x, y) gets: (xs * sizeOfTheCell, ys * sizeOfTheCell) *)
RefOrigin(x, y, sizeOfTheCell) == <<x * sizeOfTheCell, y * sizeOfTheCell>>

(* for y in range(height): for x in range(width): a reference for each b == 0 *)
RECURSIVE GridFrom(_, _, _)
GridFrom(b, sizeOfTheCell, k) ==
    IF k >= b.w * b.h THEN <<>>
    ELSE LET y == k \div b.w
             x == k % b.w
             rest == GridFrom(b, sizeOfTheCell, k + 1)
         IN  IF Px(b, y, x) = 0
             THEN <<RefOrigin(x, y, sizeOfTheCell)>> \o rest
             ELSE rest

GridRefs(b, sizeOfTheCell) == GridFrom(b, sizeOfTheCell, 0)

(* scaledGrid = gdspy.CellReference(grid, (0.0, 0.0), magnification=scaleFactor) *)
TopReference(sizeOfTheCell) == [origin |-> <<0, 0>>, magnification |-> sizeOfTheCell]
NoTop == [origin |-> <<0, 0>>, magnification |-> 0]

(* lib.write_gds: the unit square of CELL, the references of GRID, the reference of TOP *)
NoLayout == [written |-> FALSE, unit |-> 0, refs |-> <<>>, top |-> NoTop]
Layout(g, t) == [written |-> TRUE, unit |-> 1, refs |-> g, top |-> t]

----------------------------------------------------------------------------
(* picToGDS.main, one action per stage *)

Raise(e) ==
    /\ pc' = "raised"
    /\ err' = e

(* lines 26-28 *)
Imread ==
    /\ pc = "imread"
    /\ IF args.fileOk
       THEN /\ img_raw' = args.image
            /\ pc' = "fixscale"
            /\ err' = err
       ELSE /\ Raise("FileNotFoundError")
            /\ img_raw' = img_raw
    /\ UNCHANGED <<args, scale, img, width, height, gray, T_otsu, T_effective,
                   binaryImage, bmpFile, grid, top, gdsFile, appVars>>

(* lines 31-33 *)
ScaleFix ==
    /\ pc = "fixscale"
    /\ scale' = FixScale(args.scale)
    /\ pc' = "resize"
    /\ UNCHANGED <<args, err, img_raw, img, width, height, gray, T_otsu, T_effective,
                   binaryImage, bmpFile, grid, top, gdsFile, appVars>>

(* lines 36-41 *)
Resize ==
    /\ pc = "resize"
    /\ IF ResizeOk(img_raw, scale)
       THEN /\ img' = CvResize(img_raw, scale)
            /\ width' = img'.w
            /\ height' = img'.h
            /\ pc' = "cvtColor"
            /\ err' = err
       ELSE /\ Raise("cv2.error")
            /\ UNCHANGED <<img, width, height>>
    /\ UNCHANGED <<args, scale, img_raw, gray, T_otsu, T_effective,
                   binaryImage, bmpFile, grid, top, gdsFile, appVars>>

(* line 44 *)
CvtColor ==
    /\ pc = "cvtColor"
    /\ gray' = img
    /\ pc' = "dither"
    /\ UNCHANGED <<args, err, scale, img_raw, img, width, height, T_otsu, T_effective,
                   binaryImage, bmpFile, grid, top, gdsFile, appVars>>

(* lines 47-63 *)
Dither ==
    /\ pc = "dither"
    /\ gray' = IF args.isDither THEN DitherPass(gray) ELSE gray
    /\ pc' = "otsu"
    /\ UNCHANGED <<args, err, scale, img_raw, img, width, height, T_otsu, T_effective,
                   binaryImage, bmpFile, grid, top, gdsFile, appVars>>

(* line 67: the threshold cv2 returns for the buffer, some value of [0, 255] *)
OtsuValues == {0, 127, White}
Otsu ==
    /\ pc = "otsu"
    /\ \E t \in OtsuValues : T_otsu' = t
    /\ pc' = "threshold"
    /\ UNCHANGED <<args, err, scale, img_raw, img, width, height, gray, T_effective,
                   binaryImage, bmpFile, grid, top, gdsFile, appVars>>

(* lines 69-75 *)
Threshold ==
    /\ pc = "threshold"
    /\ T_effective' = EffectiveThreshold(T_otsu, args.threshold_offset)
    /\ binaryImage' = CvThresholdBinary(gray, T_effective')
    /\ pc' = "corner"
    /\ UNCHANGED <<args, err, scale, img_raw, img, width, height, gray, T_otsu,
                   bmpFile, grid, top, gdsFile, appVars>>

(* lines 78-93 *)
Corner ==
    /\ pc = "corner"
    /\ binaryImage' = CornerPass(binaryImage)
    /\ pc' = "invert"
    /\ UNCHANGED <<args, err, scale, img_raw, img, width, height, gray, T_otsu,
                   T_effective, bmpFile, grid, top, gdsFile, appVars>>

(* lines 96-97 *)
Invert ==
    /\ pc = "invert"
    /\ binaryImage' = IF args.invert THEN InvertImage(binaryImage) ELSE binaryImage
    /\ pc' = "imwrite"
    /\ UNCHANGED <<args, err, scale, img_raw, img, width, height, gray, T_otsu,
                   T_effective, bmpFile, grid, top, gdsFile, appVars>>

(* line 100: cv2.imwrite reports a failed write by returning False, which main ignores *)
Imwrite ==
    /\ pc = "imwrite"
    /\ \E ok \in BOOLEAN : bmpFile' = IF ok THEN binaryImage ELSE bmpFile
    /\ pc' = "grid"
    /\ UNCHANGED <<args, err, scale, img_raw, img, width, height, gray, T_otsu,
                   T_effective, binaryImage, grid, top, gdsFile, appVars>>

(* lines 103-125 *)
BuildGrid ==
    /\ pc = "grid"
    /\ grid' = GridRefs(binaryImage, args.sizeOfTheCell)
    /\ pc' = "top"
    /\ UNCHANGED <<args, err, scale, img_raw, img, width, height, gray, T_otsu,
                   T_effective, binaryImage, bmpFile, top, gdsFile, appVars>>

(* lines 128-132 *)
BuildTop ==
    /\ pc = "top"
    /\ top' = TopReference(args.sizeOfTheCell)
    /\ pc' = "write_gds"
    /\ UNCHANGED <<args, err, scale, img_raw, img, width, height, gray, T_otsu,
                   T_effective, binaryImage, bmpFile, grid, gdsFile, appVars>>

(* line 133: a failed write raises *)
WriteGds ==
    /\ pc = "write_gds"
    /\ \E ok \in BOOLEAN :
          IF ok
          THEN /\ gdsFile' = Layout(grid, top)
               /\ pc' = "done"
               /\ err' = err
          ELSE /\ Raise("OSError")
               /\ gdsFile' = gdsFile
    /\ UNCHANGED <<args, scale, img_raw, img, width, height, gray, T_otsu,
                   T_effective, binaryImage, bmpFile, grid, top, appVars>>

NextMain ==
    \/ Imread \/ ScaleFix \/ Resize \/ CvtColor \/ Dither \/ Otsu \/ Threshold
    \/ Corner \/ Invert \/ Imwrite \/ BuildGrid \/ BuildTop \/ WriteGds

----------------------------------------------------------------------------
(* The calls of main that the specifications start from *)

NoScale == [isNone |-> TRUE, v |-> 0]
ScaleOf(v) == [isNone |-> FALSE, v |-> v]

Args(fileOk, image, sc, isDither, offset, invert, sizeOfTheCell) ==
    [fileOk |-> fileOk, image |-> image, scale |-> sc, isDither |-> isDither,
     threshold_offset |-> offset, invert |-> invert, sizeOfTheCell |-> sizeOfTheCell]

ImagesUpTo(maxW, maxH, values) ==
    UNION {Images(w, h, values) : w \in 1 .. maxW, h \in 1 .. maxH}

AppIdle ==
    /\ calls = <<>>
    /\ fs = <<>>
    /\ made = 0

MainStart(argSet) ==
    /\ args \in argSet
    /\ pc = "imread"
    /\ err = ""
    /\ scale = 0
    /\ img_raw = NoArray
    /\ img = NoArray
    /\ width = 0
    /\ height = 0
    /\ gray = NoArray
    /\ T_otsu = 0
    /\ T_effective = 0
    /\ binaryImage = NoArray
    /\ bmpFile = NoArray
    /\ grid = <<>>
    /\ top = NoTop
    /\ gdsFile = NoLayout
    /\ AppIdle

(* Grayscale rasters, with and without -d. *)
DitherLumas == {100, 200}
InitDither ==
    MainStart({Args(TRUE, im, ScaleOf(1), d, 0, FALSE, 1) :
                 im \in ImagesUpTo(DitherMaxW, DitherMaxH, DitherLumas), d \in BOOLEAN})
SpecDither == InitDither /\ [][NextMain]_vars

(* Every offset against every Otsu threshold. *)
ThreshLumas == {0, 1, 128, White}
Offsets == {-300, -1, 0, 1, 300}
InitThreshold ==
    MainStart({Args(TRUE, im, ScaleOf(1), FALSE, off, FALSE, 1) :
                 im \in ImagesUpTo(ThreshMaxW, ThreshMaxH, ThreshLumas), off \in Offsets})
SpecThreshold == InitThreshold /\ [][NextMain]_vars

(* Black-and-white rasters, every cell size, with and without --invert. *)
Checkerboard(first) ==
    [h |-> 4, w |-> 4,
     px |-> [p \in Pixels(4, 4) |-> IF (p[1] + p[2]) % 2 = 0 THEN first ELSE White - first]]
InitBitmap ==
    MainStart({Args(TRUE, im, ScaleOf(1), FALSE, 0, inv, c) :
                 im \in ImagesUpTo(BitmapMaxW, BitmapMaxH, {Black, White})
                          \cup {Checkerboard(Black), Checkerboard(White)},
                 inv \in BOOLEAN, c \in 1 .. MaxCellSize})
SpecBitmap == InitBitmap /\ [][NextMain]_vars

(* Every scale, readable and unreadable files. *)
(* app.py lines 52-54 pass --scale only when it is not 1.0; argparse (line 147)
   gives 1.0 when the option is absent, and takes "-5.0" as the option's value.
   main is also called with scale=None. *)
CmdScale(scale_factor) == IF scale_factor # 1 THEN <<"--scale", scale_factor>> ELSE <<>>
ArgparseScale(cmd) == IF cmd = <<>> THEN DefaultScale ELSE cmd[2]
ScaleFactors == {-5, 0, 1, 2}
Scales == {NoScale} \cup {ScaleOf(ArgparseScale(CmdScale(f))) : f \in ScaleFactors}
InitScale ==
    MainStart({Args(ok, Uniform(w, h, v), s, FALSE, 0, FALSE, 1) :
                 ok \in BOOLEAN, w \in 1 .. ScaleMaxW, h \in 1 .. ScaleMaxH,
                 v \in {Black, White}, s \in Scales})
SpecScale == InitScale /\ [][NextMain]_vars

----------------------------------------------------------------------------
(* app.py: convert_to_gds.  Each invocation runs picToGDS.py as a subprocess
   whose working directory is the invocation's temporary directory; of main
   the wrapper sees the files it leaves there and its exit status. *)

NumCalls == 2
Callers == 1 .. NumCalls

File(stem, ext) == [stem |-> stem, ext |-> ext]
None == [by |-> 0, kind |-> "none"]
Content(i, kind) == [by |-> i, kind |-> kind]
NoFiles == [n \in {} |-> None]
NoName == File("", "")

WriteFile(files, name, c) ==
    [n \in DOMAIN files \cup {name} |-> IF n = name THEN c ELSE files[n]]

(* glob.glob(os.path.join(tmpdir, "*.ext")): the matching names; their order is the directory's *)
Glob(files, ext) == {n \in DOMAIN files : n.ext = ext}

(* What the user submits: the uploaded file (its base name, whether cv2.imread
   can decode it) and whether the four numbers parse. *)
UploadNames == {File("photo", "png"), File("scan", "bmp"), File("mask", "gds")}
Requests ==
    {[given |-> FALSE, isPath |-> TRUE, name |-> NoName, readable |-> FALSE, numeric |-> TRUE],
     [given |-> TRUE, isPath |-> TRUE, name |-> File("photo", "png"), readable |-> TRUE, numeric |-> FALSE],
     [given |-> TRUE, isPath |-> FALSE, name |-> NoName, readable |-> TRUE, numeric |-> TRUE]}
    \cup {[given |-> TRUE, isPath |-> TRUE, name |-> n, readable |-> r, numeric |-> TRUE] :
            n \in UploadNames, r \in BOOLEAN}

NewCall(r) ==
    [req |-> r, pc |-> "start", tmpdir |-> 0, in_name |-> NoName, returncode |-> -1,
     gds_src |-> NoName, bmp_src |-> NoName, out_dir |-> 0,
     gds_out |-> None, bmp_out |-> None, error |-> ""]

(* Leaving the with block removes the temporary directory. *)
Cleanup(f, d) == [f EXCEPT ![d] = NoFiles]

(* gr.Error raised inside the with block *)
Fail(i, msg) ==
    /\ calls' = [calls EXCEPT ![i].pc = "error", ![i].error = msg]
    /\ fs' = Cleanup(fs, calls[i].tmpdir)
    /\ made' = made

(* lines 27-39 *)
Start(i) ==
    /\ calls[i].pc = "start"
    /\ IF ~calls[i].req.given
       THEN /\ calls' = [calls EXCEPT ![i].pc = "error", ![i].error = "Please upload an image first."]
            /\ UNCHANGED <<fs, made>>
       ELSE IF ~calls[i].req.numeric
       THEN /\ calls' = [calls EXCEPT ![i].pc = "error", ![i].error = "must be numeric"]
            /\ UNCHANGED <<fs, made>>
       ELSE /\ made' = made + 1
            /\ fs' = Append(fs, NoFiles)
            /\ calls' = [calls EXCEPT ![i].pc = "copy_in", ![i].tmpdir = made + 1]
    /\ UNCHANGED mainVars

(* lines 41-49 *)
CopyIn(i) ==
    /\ calls[i].pc = "copy_in"
    /\ LET in_name == IF calls[i].req.isPath THEN calls[i].req.name ELSE File("input", "png")
       IN  /\ fs' = [fs EXCEPT ![calls[i].tmpdir] = WriteFile(@, in_name, Content(i, "input"))]
           /\ calls' = [calls EXCEPT ![i].pc = "imread", ![i].in_name = in_name]
    /\ UNCHANGED <<made, mainVars>>

(* lines 63-68, picToGDS.py lines 26-28: an unreadable image ends the subprocess with an exception *)
SubImread(i) ==
    /\ calls[i].pc = "imread"
    /\ calls' = IF calls[i].req.readable
                THEN [calls EXCEPT ![i].pc = "imwrite"]
                ELSE [calls EXCEPT ![i].pc = "check", ![i].returncode = 1]
    /\ UNCHANGED <<fs, made, mainVars>>

(* picToGDS.py line 100: image.bmp in the working directory; a failed write returns False *)
SubImwrite(i) ==
    /\ calls[i].pc = "imwrite"
    /\ \E ok \in BOOLEAN :
          fs' = IF ok
                THEN [fs EXCEPT ![calls[i].tmpdir] =
                         WriteFile(@, File("image", "bmp"), Content(i, "preview"))]
                ELSE fs
    /\ calls' = [calls EXCEPT ![i].pc = "write_gds"]
    /\ UNCHANGED <<made, mainVars>>

(* picToGDS.py line 133: image.gds in the working directory; a failed write raises *)
SubWriteGds(i) ==
    /\ calls[i].pc = "write_gds"
    /\ \E ok \in BOOLEAN :
          IF ok
          THEN /\ fs' = [fs EXCEPT ![calls[i].tmpdir] =
                            WriteFile(@, File("image", "gds"), Content(i, "layout"))]
               /\ calls' = [calls EXCEPT ![i].pc = "check", ![i].returncode = 0]
          ELSE /\ fs' = fs
               /\ calls' = [calls EXCEPT ![i].pc = "check", ![i].returncode = 1]
    /\ UNCHANGED <<made, mainVars>>

(* lines 70-74 *)
CheckReturn(i) ==
    /\ calls[i].pc = "check"
    /\ IF calls[i].returncode # 0
       THEN Fail(i, "picToGDS failed")
       ELSE /\ calls' = [calls EXCEPT ![i].pc = "glob"]
            /\ UNCHANGED <<fs, made>>
    /\ UNCHANGED mainVars

(* lines 77-84: gds_files[0] and bmp_files[0] are whichever names the directory lists first *)
FindFiles(i) ==
    /\ calls[i].pc = "glob"
    /\ LET gds_files == Glob(fs[calls[i].tmpdir], "gds")
           bmp_files == Glob(fs[calls[i].tmpdir], "bmp")
       IN  IF gds_files = {}
           THEN Fail(i, "No GDS file was created by picToGDS.py.")
           ELSE /\ \E g \in gds_files :
                   \E b \in (IF bmp_files = {} THEN {NoName} ELSE bmp_files) :
                      calls' = [calls EXCEPT ![i].pc = "copy_out",
                                             ![i].gds_src = g, ![i].bmp_src = b]
                /\ UNCHANGED <<fs, made>>
    /\ UNCHANGED mainVars

(* lines 88-102: copy into a fresh directory, return both paths, leave the with block *)
CopyOut(i) ==
    /\ calls[i].pc = "copy_out"
    /\ LET tmp == fs[calls[i].tmpdir]
           out == made + 1
           gds == tmp[calls[i].gds_src]
           bmp == IF calls[i].bmp_src = NoName THEN None ELSE tmp[calls[i].bmp_src]
           files1 == WriteFile(NoFiles, calls[i].gds_src, gds)
           files2 == IF calls[i].bmp_src = NoName THEN files1
                     ELSE WriteFile(files1, calls[i].bmp_src, bmp)
       IN  /\ made' = out
           /\ fs' = Cleanup(Append(fs, files2), calls[i].tmpdir)
           /\ calls' = [calls EXCEPT ![i].pc = "returned", ![i].out_dir = out,
                                     ![i].gds_out = gds, ![i].bmp_out = bmp]
    /\ UNCHANGED mainVars

NextApp ==
    \E i \in Callers :
        \/ Start(i) \/ CopyIn(i) \/ SubImread(i) \/ SubImwrite(i) \/ SubWriteGds(i)
        \/ CheckReturn(i) \/ FindFiles(i) \/ CopyOut(i)

MainOff ==
    /\ args = Args(FALSE, NoArray, NoScale, FALSE, 0, FALSE, 0)
    /\ pc = "off"
    /\ err = ""
    /\ scale = 0
    /\ img_raw = NoArray
    /\ img = NoArray
    /\ width = 0
    /\ height = 0
    /\ gray = NoArray
    /\ T_otsu = 0
    /\ T_effective = 0
    /\ binaryImage = NoArray
    /\ bmpFile = NoArray
    /\ grid = <<>>
    /\ top = NoTop
    /\ gdsFile = NoLayout

InitApp ==
    /\ calls \in [Callers -> {NewCall(r) : r \in Requests}]
    /\ fs = <<>>
    /\ made = 0
    /\ MainOff

SpecApp == InitApp /\ [][NextApp]_vars

----------------------------------------------------------------------------
(* Properties *)

AfterThreshold == pc \in {"corner", "invert", "imwrite", "grid", "top", "write_gds", "done"}
AfterGrid == pc \in {"top", "write_gds", "done"}
AfterTop == pc \in {"write_gds", "done"}

Count(seq, v) == Cardinality({k \in DOMAIN seq : seq[k] = v})

(* The black pixels <<x, y>> of b in the order main walks them (y outer, x inner). *)
RECURSIVE BlackFrom(_, _)
BlackFrom(b, k) ==
    IF k >= b.w * b.h THEN <<>>
    ELSE IF Px(b, k \div b.w, k % b.w) = Black
         THEN <<(<<k % b.w, k \div b.w>>)>> \o BlackFrom(b, k + 1)
         ELSE BlackFrom(b, k + 1)
BlackPixels(b) == BlackFrom(b, 0)

(* C1: once GRID is built, every black pixel (x, y) of the final bitmap has
   exactly one reference at (x, height - y - 1), and the place of a white
   pixel has none. *)
C1_FlippedOneToOne ==
    AfterGrid =>
        \A p \in DOMAIN binaryImage.px :
            Count(grid, <<p[2], height - p[1] - 1>>)
                = (IF binaryImage.px[p] = Black THEN 1 ELSE 0)

(* Either trigger pattern of the corner correction at neighbourhood (x, y). *)
Trigger(b, y, x) ==
    \/ /\ Px(b, y, x) = Black /\ Px(b, y + 1, x + 1) = Black
       /\ Px(b, y + 1, x) = White /\ Px(b, y, x + 1) = White
    \/ /\ Px(b, y, x) = White /\ Px(b, y + 1, x + 1) = White
       /\ Px(b, y + 1, x) = Black /\ Px(b, y, x + 1) = Black

(* C2: after one corner-correction pass no 2x2 neighbourhood matches a
   trigger pattern, and a second pass changes no pixel. *)
C2_CornerIdempotent ==
    pc = "invert" =>
        /\ \A x \in 0 .. width - 2 : \A y \in 0 .. height - 2 : ~Trigger(binaryImage, y, x)
        /\ CornerPass(binaryImage) = binaryImage

(* The origin, in the final layout, of the square of the k-th reference of GRID. *)
FinalOrigin(k) == <<top.magnification * grid[k][1], top.magnification * grid[k][2]>>
Adjacent(p, q) ==
    \/ p[2] = q[2] /\ q[1] = p[1] + 1
    \/ p[1] = q[1] /\ q[2] = p[2] + 1
Distance(o1, o2) ==
    (IF o1[1] > o2[1] THEN o1[1] - o2[1] ELSE o2[1] - o1[1])
    + (IF o1[2] > o2[2] THEN o1[2] - o2[2] ELSE o2[2] - o1[2])

(* C4: the cell size is applied once, by TOP's magnification: the references
   of GRID sit at the pixel indices whatever the cell size, the squares of the
   final layout have side sizeOfTheCell, and the squares of two adjacent black
   pixels are exactly sizeOfTheCell apart. *)
C4_CellSizeOnce ==
    AfterTop =>
        LET black == BlackPixels(binaryImage)
        IN  /\ Len(grid) = Len(black)
            /\ \A k \in DOMAIN grid :
                  /\ grid[k][1] = black[k][1]
                  /\ grid[k][2] \in {black[k][2], height - black[k][2] - 1}
            /\ top.magnification = args.sizeOfTheCell
            /\ \A j, k \in DOMAIN grid :
                  Adjacent(black[j], black[k]) =>
                      Distance(FinalOrigin(j), FinalOrigin(k)) = args.sizeOfTheCell

Border(p) == p[2] = 0 \/ p[2] = width - 1 \/ p[1] = height - 1

(* C5 as stated: a dithering pass leaves every pixel of column 0, of column
   width - 1 and of row height - 1 at the value it had before the pass. *)
C5_BorderUntouched ==
    (pc = "otsu" /\ args.isDither) =>
        \A p \in DOMAIN gray.px : Border(p) => gray.px[p] = img.px[p]

(* C5 as amended: a dithering pass leaves pixel (0, 0) at the value it had
   before the pass, and leaves the whole buffer as it was when width < 3 or
   height < 2, where no pixel is visited; the other border pixels receive
   diffused error. *)
C5_CornerPixelUntouched ==
    (pc = "otsu" /\ args.isDither) =>
        /\ gray.px[<<0, 0>>] = img.px[<<0, 0>>]
        /\ (width < 3 \/ height < 2) => gray = img

C5_Witness ==
    /\ pc = "otsu"
    /\ args.isDither
    /\ width >= 3
    /\ height >= 2
    /\ gray.px[<<0, 0>>] = img.px[<<0, 0>>]
    /\ \E p \in DOMAIN gray.px : Border(p) /\ gray.px[p] # img.px[p]

(* C6: with threshold offset -300 the effective threshold is 0 and every
   pixel of the binarized image is black. *)
C6_AllBlack ==
    (pc = "corner" /\ args.threshold_offset = -300) =>
        /\ T_effective = 0
        /\ \A p \in DOMAIN binaryImage.px : binaryImage.px[p] = Black

(* C7: the effective threshold lies in [0, 255]: it is T_otsu + offset when
   that lies in [0, 255], 0 when it is below and 255 when it is above; and it
   is the threshold the binarization used (white exactly where gray exceeds it). *)
C7_ThresholdClamped ==
    AfterThreshold =>
        LET t == T_otsu + args.threshold_offset
        IN  /\ T_effective >= 0
            /\ T_effective <= 255
            /\ (t < 0 => T_effective = 0)
            /\ (t > 255 => T_effective = 255)
            /\ (t >= 0 /\ t <= 255 => T_effective = t)
            /\ pc = "corner" =>
                  \A p \in DOMAIN gray.px :
                      (binaryImage.px[p] = White) <=> (gray.px[p] > T_effective)

C7_Witness ==
    /\ pc = "corner"
    /\ T_otsu + args.threshold_offset < 0
    /\ T_effective = 0
    /\ \E p \in DOMAIN gray.px : binaryImage.px[p] = White

InvalidScale == args.scale.isNone \/ args.scale.v <= 0

(* C8: when the scale is absent, zero or negative and the image decodes, main
   resamples with scale 1, raises nothing (only a failing write of the layout
   file can stop it), keeps the input's dimensions in the bitmap it writes,
   and ends having written the layout. *)
C8_InvalidScaleRecovered ==
    (InvalidScale /\ args.fileOk) =>
        /\ pc \notin {"imread", "fixscale"} => scale = 1
        /\ pc = "raised" => err = "OSError"
        /\ pc \notin {"imread", "fixscale", "resize", "raised"} =>
              width = args.image.w /\ height = args.image.h
        /\ bmpFile # NoArray => bmpFile.w = args.image.w /\ bmpFile.h = args.image.h
        /\ pc = "done" => gdsFile.written

C8_Witness ==
    /\ pc = "done"
    /\ args.scale = ScaleOf(-5)
    /\ scale = 1
    /\ bmpFile # NoArray
    /\ bmpFile.w = args.image.w
    /\ gdsFile.written

(* C3: an invocation that returns hands back both the layout and the preview,
   and one that fails hands back neither. *)
C3_BothOrNeither ==
    \A i \in DOMAIN calls :
        /\ calls[i].pc = "returned" => (calls[i].gds_out # None /\ calls[i].bmp_out # None)
        /\ calls[i].pc = "error" => (calls[i].gds_out = None /\ calls[i].bmp_out = None)

(* C10: the layout an invocation returns is the image.gds its conversion
   wrote and the preview it returns is the image.bmp its conversion wrote,
   never the uploaded file. *)
C10_ReturnsWrittenArtifacts ==
    \A i \in DOMAIN calls :
        calls[i].pc = "returned" =>
            /\ calls[i].gds_out.kind = "layout"
            /\ calls[i].bmp_out # None => calls[i].bmp_out.kind = "preview"

(* C9: invocations share nothing: their directories are distinct, every file
   in a directory of invocation i was written by i, and i returns the layout
   and the preview its own conversion produced. *)
C9_NoSharedState ==
    \A i \in DOMAIN calls :
        /\ \A j \in DOMAIN calls :
              (i # j /\ calls[i].tmpdir # 0) =>
                  calls[i].tmpdir \notin {calls[j].tmpdir, calls[j].out_dir}
        /\ \A d \in {calls[i].tmpdir, calls[i].out_dir} \ {0} :
              \A n \in DOMAIN fs[d] : fs[d][n].by = i
        /\ calls[i].pc = "returned" =>
              /\ calls[i].gds_out = Content(i, "layout")
              /\ calls[i].bmp_out = Content(i, "preview")

(* The part of C9 about other invocations: directories are never shared and
   nothing an invocation holds or returns was written by another. *)
CallsIsolated ==
    \A i \in DOMAIN calls :
        /\ \A j \in DOMAIN calls :
              (i # j /\ calls[i].tmpdir # 0) =>
                  calls[i].tmpdir \notin {calls[j].tmpdir, calls[j].out_dir}
        /\ \A d \in {calls[i].tmpdir, calls[i].out_dir} \ {0} :
              \A n \in DOMAIN fs[d] : fs[d][n].by = i
        /\ calls[i].gds_out.by \in {0, i}
        /\ calls[i].bmp_out.by \in {0, i}

====
